---- MODULE Spec2Model ----
(***************************************************************************)
(* Event store (DynamoDB table keyed by application, created_at), the     *)
(* PutItem write path of the REST API and the aggregation Lambda          *)
(* (lambdas/applications/function_post.py).                               *)
(*                                                                         *)
(* Strings the code formats, compares and parses are sequences of         *)
(* one-character strings, so that formatting, lexical comparison and      *)
(* parsing are computed character by character as the code does.          *)
(***************************************************************************)
EXTENDS Integers, Sequences, FiniteSets, TLC

VARIABLES
    table,       \* the items of the DynamoDB table
    pc,          \* the stage the handler invocation is at
    event,       \* the event of the invocation
    start_date,  \* handler local: rendered start of the range
    end_date,    \* handler local: rendered end of the range
    data,        \* handler local: the query response
    idx,         \* handler local: position of the loop over data['Items']
    response,    \* handler local: the dict of dates and counts
    outcome,     \* what the invocation returned or raised
    log,         \* the log records of the invocation, in order
    queries,     \* query requests the invocation has sent to the store
    snapshot,    \* the items the table held when the query was answered
    prev,        \* event and outcome of the call before, when remembered
    other,       \* the locals of a second invocation while it does not run
    environ,     \* os.environ of the function's process
    lastPut      \* body and status of the last PUT request

vars == <<table, pc, event, start_date, end_date, data, idx, response,
          outcome, log, queries, snapshot, prev, other, environ, lastPut>>

(***************************************************************************)
(* Bounds of the model.                                                    *)
(***************************************************************************)
\* Largest number of items the table holds.
MaxItems == 3

\* Items the store returns in one response page (DynamoDB pages a Query at
\* 1 MB of data); kept below the table's capacity so that a result of more
\* than one page exists.
PageLimit == MaxItems - 1

(***************************************************************************)
(* Characters and strings.                                                 *)
(***************************************************************************)
\* The characters used, in increasing code-point (UTF-8 byte) order.
Ascii == <<" ", "+", "-", "/",
           "0", "1", "2", "3", "4", "5", "6", "7", "8", "9", ":",
           "A", "D", "F", "J", "M", "N", "O", "S",
           "a", "b", "c", "e", "g", "l", "n", "o", "p", "r", "t", "u", "v", "y">>

Ord(c) == CHOOSE i \in 1..Len(Ascii) : Ascii[i] = c

Digits == <<"0", "1", "2", "3", "4", "5", "6", "7", "8", "9">>

IsDigit(c) == \E i \in 1..10 : Digits[i] = c

DigitVal(c) == (CHOOSE i \in 1..10 : Digits[i] = c) - 1

\* Python / DynamoDB string order: first differing character decides, a
\* proper prefix is smaller.
StrLess(a, b) ==
    \E i \in 1..(Len(b)) :
        /\ \A j \in 1..(i - 1) : j <= Len(a) /\ a[j] = b[j]
        /\ \/ i = Len(a) + 1
           \/ i <= Len(a) /\ Ord(a[i]) < Ord(b[i])

StrLeq(a, b) == a = b \/ StrLess(a, b)

\* s[lo..hi] as a string (empty when hi < lo).
Slice(s, lo, hi) == [i \in 1..(hi - lo + 1) |-> s[lo + i - 1]]

AllDigits(s) == \A i \in 1..Len(s) : IsDigit(s[i])

RECURSIVE ToInt(_)
ToInt(s) == IF Len(s) = 0 THEN 0
            ELSE 10 * ToInt(Slice(s, 1, Len(s) - 1)) + DigitVal(s[Len(s)])

\* Zero-padded decimal rendering of n in w characters.
RECURSIVE Pad(_, _)
Pad(n, w) == IF w = 0 THEN <<>>
             ELSE Pad(n \div 10, w - 1) \o <<Digits[(n % 10) + 1]>>

Min(S) == CHOOSE x \in S : \A y \in S : x <= y

(***************************************************************************)
(* Calendar and the datetime conversions used by the handler.              *)
(***************************************************************************)
\* %b: abbreviated month names (C locale).
MonthAbbr == << <<"J", "a", "n">>, <<"F", "e", "b">>, <<"M", "a", "r">>,
                <<"A", "p", "r">>, <<"M", "a", "y">>, <<"J", "u", "n">>,
                <<"J", "u", "l">>, <<"A", "u", "g">>, <<"S", "e", "p">>,
                <<"O", "c", "t">>, <<"N", "o", "v">>, <<"D", "e", "c">> >>

IsLeap(y) == (y % 4 = 0 /\ y % 100 # 0) \/ y % 400 = 0

DaysInMonth(y, m) == IF m = 2 THEN (IF IsLeap(y) THEN 29 ELSE 28)
                     ELSE IF m \in {4, 6, 9, 11} THEN 30 ELSE 31

\* The value strptime raises on instead of returning (ValueError).
ParseError == [error |-> "ValueError"]

\* datetime.datetime(year, month, day, hour, minute, second, microsecond)
DateTime(y, m, d, H, M, S, us) ==
    [year |-> y, month |-> m, day |-> d,
     hour |-> H, minute |-> M, second |-> S, microsecond |-> us]

\* A one- or two-digit number field of a strptime format (%m, %d, %H, ...).
IsNumField(s) == Len(s) \in {1, 2} /\ AllDigits(s)

\* StrptimeYmd without the check that the day exists in the month.
StrptimeYmdAnyDay(s) ==
    LET n == Len(s)
        dashes == {i \in 7..n : s[i] = "-"}
    IN  IF n < 8 \/ ~AllDigits(Slice(s, 1, 4)) \/ s[5] # "-" \/ dashes = {}
        THEN ParseError
        ELSE LET p  == Min(dashes)
                 ms == Slice(s, 6, p - 1)
                 ds == Slice(s, p + 1, n)
             IN  IF ~IsNumField(ms) \/ ~IsNumField(ds)
                 THEN ParseError
                 ELSE LET y == ToInt(Slice(s, 1, 4))
                          m == ToInt(ms)
                          d == ToInt(ds)
                      IN  IF y >= 1 /\ m \in 1..12 /\ d \in 1..31
                          THEN DateTime(y, m, d, 0, 0, 0, 0)
                          ELSE ParseError

\* datetime.datetime.strptime(s, '%Y-%m-%d'): four digits of year, then month
\* and day of one or two digits each, separated by '-', nothing else; the
\* date has to exist.  Time of day is 00:00:00.
StrptimeYmd(s) ==
    LET n == Len(s)
        dashes == {i \in 7..n : s[i] = "-"}
    IN  IF n < 8 \/ ~AllDigits(Slice(s, 1, 4)) \/ s[5] # "-" \/ dashes = {}
        THEN ParseError
        ELSE LET p  == Min(dashes)
                 ms == Slice(s, 6, p - 1)
                 ds == Slice(s, p + 1, n)
             IN  IF ~IsNumField(ms) \/ ~IsNumField(ds)
                 THEN ParseError
                 ELSE LET y == ToInt(Slice(s, 1, 4))
                          m == ToInt(ms)
                          d == ToInt(ds)
                      IN  IF y >= 1 /\ m \in 1..12 /\ d >= 1
                             /\ d <= DaysInMonth(y, m)
                          THEN DateTime(y, m, d, 0, 0, 0, 0)
                          ELSE ParseError

\* dt.strftime("%d/%b/%Y:%H:%M:%S"): microseconds are not rendered.
StrftimeCLF(dt) ==
    Pad(dt.day, 2) \o <<"/">> \o MonthAbbr[dt.month] \o <<"/">> \o
    Pad(dt.year, 4) \o <<":">> \o Pad(dt.hour, 2) \o <<":">> \o
    Pad(dt.minute, 2) \o <<":">> \o Pad(dt.second, 2)

\* The literal suffix " +0000".
UtcSuffix == <<" ", "+", "0", "0", "0", "0">>

\* dt.strftime("%Y-%m-%d")
StrftimeYmd(dt) ==
    Pad(dt.year, 4) \o <<"-">> \o Pad(dt.month, 2) \o <<"-">> \o Pad(dt.day, 2)

\* Index of the first c in s at or after position from, 0 when there is none.
Find(s, c, from) ==
    LET hits == {i \in from..Len(s) : s[i] = c}
    IN  IF hits = {} THEN 0 ELSE Min(hits)

\* datetime.datetime.strptime(s, '%d/%b/%Y:%H:%M:%S')
StrptimeCLF(s) ==
    LET n  == Len(s)
        p1 == Find(s, "/", 1)
        p2 == IF p1 = 0 THEN 0 ELSE Find(s, "/", p1 + 1)
        p3 == IF p2 = 0 THEN 0 ELSE Find(s, ":", p2 + 1)
        p4 == IF p3 = 0 THEN 0 ELSE Find(s, ":", p3 + 1)
        p5 == IF p4 = 0 THEN 0 ELSE Find(s, ":", p4 + 1)
    IN  IF p5 = 0 THEN ParseError
        ELSE LET ds  == Slice(s, 1, p1 - 1)
                 bs  == Slice(s, p1 + 1, p2 - 1)
                 ys  == Slice(s, p2 + 1, p3 - 1)
                 Hs  == Slice(s, p3 + 1, p4 - 1)
                 Ms  == Slice(s, p4 + 1, p5 - 1)
                 Ss  == Slice(s, p5 + 1, n)
                 mon == {m \in 1..12 : MonthAbbr[m] = bs}
             IN  IF \/ ~IsNumField(ds) \/ mon = {}
                    \/ Len(ys) # 4 \/ ~AllDigits(ys)
                    \/ ~IsNumField(Hs) \/ ~IsNumField(Ms) \/ ~IsNumField(Ss)
                 THEN ParseError
                 ELSE LET y == ToInt(ys)
                          m == Min(mon)
                          d == ToInt(ds)
                      IN  IF /\ y >= 1 /\ d >= 1 /\ d <= DaysInMonth(y, m)
                             /\ ToInt(Hs) <= 23 /\ ToInt(Ms) <= 59
                             /\ ToInt(Ss) <= 59
                          THEN DateTime(y, m, d, ToInt(Hs), ToInt(Ms),
                                        ToInt(Ss), 0)
                          ELSE ParseError

\* s[:-6]
DropLast6(s) == Slice(s, 1, IF Len(s) > 6 THEN Len(s) - 6 ELSE 0)

(***************************************************************************)
(* Inputs.                                                                 *)
(***************************************************************************)
Applications == {"app1", "app2"}

Operations == {"play"}

\* Instants at which PUT requests arrive ($context.requestTime, UTC).
RequestTimes ==
    { DateTime(2023, 1, 1, 0, 0, 0, 0),
      DateTime(2023, 1, 1, 12, 30, 15, 0),
      DateTime(2023, 1, 1, 23, 59, 59, 0),
      DateTime(2023, 2, 1, 0, 0, 0, 0),
      DateTime(2023, 6, 1, 12, 30, 15, 0) }

\* The text of a date as a client writes it.
Ymd(y, m, d) == Pad(y, 4) \o <<"-">> \o Pad(m, 2) \o <<"-">> \o Pad(d, 2)

\* Values sent as startDate / endDate: three calendar dates, a date that
\* does not exist and a string that is no date.
DateInputs ==
    { Ymd(2023, 1, 1), Ymd(2023, 2, 1), Ymd(2023, 4, 30), Ymd(2023, 2, 30),
      <<"a", "b", "c">> }

\* The event dict handed to the handler; any of its fields may be missing.
OptionalField(name, values) == {<<>>} \cup {name :> v : v \in values}

Events ==
    { a @@ s @@ e :
        a \in OptionalField("application", Applications),
        s \in OptionalField("start_date", DateInputs),
        e \in OptionalField("end_date", DateInputs) }

\* table.grant_read_data(function_post): the actions the handler's role may
\* perform on the table.
LambdaGrants == {"dynamodb:BatchGetItem", "dynamodb:GetRecords",
                 "dynamodb:GetShardIterator", "dynamodb:Query",
                 "dynamodb:GetItem", "dynamodb:Scan"}

\* The actions of DynamoDB that change the items of a table.
WriteActions == {"dynamodb:PutItem", "dynamodb:UpdateItem",
                 "dynamodb:DeleteItem", "dynamodb:BatchWriteItem"}

\* Exceptions table.query raises when the request to the store fails; the
\* last is raised when the request gets no answer in time.
StoreErrors == {"ProvisionedThroughputExceededException",
                "EndpointConnectionError",
                "ReadTimeoutError"}

(***************************************************************************)
(* The table: partition key application, sort key created_at.              *)
(***************************************************************************)
KeyOf(item) == <<item.application, item.created_at>>

\* PutItem: an item with the same primary key is replaced.
PutItem(tbl, item) == {it \in tbl : KeyOf(it) # KeyOf(item)} \cup {item}

\* KeyCondition without the partition key: a range condition only.
KeyConditionRangeOnly(item, app, lo, hi) ==
    /\ StrLeq(lo, item.created_at)
    /\ StrLeq(item.created_at, hi)

\* Key('application').eq(app) & Key('created_at').between(lo, hi)
KeyCondition(item, app, lo, hi) ==
    /\ item.application = app
    /\ StrLeq(lo, item.created_at)
    /\ StrLeq(item.created_at, hi)

\* Items in ascending order of the sort key, as Query returns them.
RECURSIVE SortByRangeKey(_)
SortByRangeKey(S) ==
    IF S = {} THEN <<>>
    ELSE LET first == CHOOSE x \in S :
                        \A y \in S : StrLeq(x.created_at, y.created_at)
         IN  <<first>> \o SortByRangeKey(S \ {first})

\* table.query(KeyConditionExpression=...): one response page.  A result of
\* more than one page carries LastEvaluatedKey.
Query(tbl, app, lo, hi) ==
    LET all == SortByRangeKey({it \in tbl : KeyCondition(it, app, lo, hi)})
    IN  IF Len(all) <= PageLimit
        THEN [Items |-> all]
        ELSE [Items |-> SubSeq(all, 1, PageLimit),
              LastEvaluatedKey |-> KeyOf(all[PageLimit])]

(***************************************************************************)
(* The handler of function_post.py, one action per stage.                  *)
(***************************************************************************)
NoEvent == <<>>
NoString == <<>>
NoData == [Items |-> <<>>]
NoOutcome == [kind |-> "none"]

\* raise Exception(json.dumps({'type': t, 'message': m}))
Raise(t, m) == [kind |-> "error", type |-> t, message |-> m]

\* return {'response': json.dumps(response)}
Return(r) == [kind |-> "ok", response |-> r]

\* logging.info / logging.warning / logging.error of a message.
LogRecord(level, what, body) == [level |-> level, what |-> what, body |-> body]

\* error_json: json.dumps({'type': t, 'message': m})
ErrorJson(t, m) == [type |-> t, message |-> m]

\* No call is remembered.
NoCall == [kind |-> "none"]

\* The locals of an invocation: what one call of the handler owns.
Frame(p, e, s, en, d, i, r, o, l, q, snap) ==
    [pc |-> p, event |-> e, start_date |-> s, end_date |-> en, data |-> d,
     idx |-> i, response |-> r, outcome |-> o, log |-> l, queries |-> q,
     snapshot |-> snap]

\* An invocation that has not started.
IdleFrame ==
    Frame("idle", NoEvent, NoString, NoString, NoData, 1, <<>>, NoOutcome,
          <<>>, 0, {})

\* The name of the table the stack declares.
TableName == "table"

\* function_post.add_environment with the entry named TABLE instead.
FunctionEnvironmentMisnamed == [TABLE |-> TableName]

\* function_post.add_environment('TABLE_NAME', table.table_name): the
\* environment the stack gives the function.
FunctionEnvironment == [TABLE_NAME |-> TableName]

\* The resources of the synthesized template the handler depends on.
Template ==
    {[type |-> "AWS::DynamoDB::Table", name |-> TableName],
     [type |-> "AWS::Lambda::Function", handler |-> "function_post.handler",
      environment |-> FunctionEnvironment]}

\* An environment without any entry.
NoEnvironment == <<>>

\* No PUT request has been made.
NoPut == [status |-> 0]

Has(e, name) == e # NoEvent /\ name \in DOMAIN e

\* start_date of line 29 and end_date of lines 31-33.
RenderStart(dt) == StrftimeCLF(dt) \o UtcSuffix

RenderEnd(dt) ==
    StrftimeCLF([dt EXCEPT !.hour = 23, !.minute = 59, !.second = 59,
                           !.microsecond = 999999]) \o UtcSuffix

\* StartAfterEnd with the operands exchanged: start_date < end_date.
StartBeforeEnd(s, e) == StrLess(s, e)

\* if start_date > end_date
StartAfterEnd(s, e) == StrLess(e, s)

\* The date key of one fetched item (line 82), or ParseError.
DateKey(item) ==
    LET dt == StrptimeCLF(DropLast6(item.created_at))
    IN  IF dt = ParseError THEN ParseError ELSE StrftimeYmd(dt)

\* Count with a new key entered at 0 instead of 1.
CountFromZero(r, k) == IF k \in DOMAIN r THEN [r EXCEPT ![k] = @ + 1]
                       ELSE r @@ (k :> 0)

\* Count setting the counter to 1 in both branches.
CountOverwrite(r, k) == IF k \in DOMAIN r THEN [r EXCEPT ![k] = 1]
                        ELSE r @@ (k :> 1)

\* Lines 84-89.
Count(r, k) == IF k \in DOMAIN r THEN [r EXCEPT ![k] = @ + 1]
               ELSE r @@ (k :> 1)

TypeOK ==
    /\ pc \in {"cold", "initerror", "idle", "parse", "check", "query", "tally",
              "done"}
    /\ Cardinality(table) <= MaxItems
    /\ idx \in 1..(PageLimit + 1)
    /\ queries \in 0..1

Init ==
    /\ table = {}
    /\ snapshot = {}
    /\ pc = "idle"
    /\ event = NoEvent
    /\ start_date = NoString
    /\ end_date = NoString
    /\ data = NoData
    /\ idx = 1
    /\ response = <<>>
    /\ outcome = NoOutcome
    /\ log = <<>>
    /\ queries = 0
    /\ prev = NoCall
    /\ other = IdleFrame
    /\ environ = FunctionEnvironment
    /\ lastPut = NoPut

\* The PUT integration: PutItem of the request's fields, created_at being
\* the request time in Common Log Format.
Store(app, op, t) ==
    /\ Cardinality(PutItem(table, [application |-> app, operation |-> op,
                                   created_at |-> RenderStart(t)])) <= MaxItems
    /\ table' = PutItem(table, [application |-> app, operation |-> op,
                                created_at |-> RenderStart(t)])
    /\ UNCHANGED <<snapshot, pc, event, start_date, end_date, data, idx,
                   response, outcome, log, queries, prev>>
    /\ UNCHANGED <<other, environ, lastPut>>

\* Lines 22-24: the handler is entered and logs the request.
Invoke(e) ==
    /\ pc = "idle"
    /\ pc' = "parse"
    /\ event' = e
    /\ log' = Append(log, LogRecord("info", "request", e))
    /\ UNCHANGED <<table, snapshot, start_date, end_date, data, idx, response,
                   outcome, queries, prev>>
    /\ UNCHANGED <<other, environ, lastPut>>

\* ParseDates raising the validation error without the logging.warning call.
ParseDatesSilent ==
    /\ pc = "parse"
    /\ LET ok == /\ Has(event, "start_date")
                 /\ StrptimeYmd(event["start_date"]) # ParseError
                 /\ Has(event, "end_date")
                 /\ StrptimeYmd(event["end_date"]) # ParseError
       IN  IF ok
           THEN /\ start_date' = RenderStart(StrptimeYmd(event["start_date"]))
                /\ end_date' = RenderEnd(StrptimeYmd(event["end_date"]))
                /\ log' = Append(log, LogRecord("info", "dates",
                       [start |-> RenderStart(StrptimeYmd(event["start_date"])),
                        end |-> RenderEnd(StrptimeYmd(event["end_date"]))]))
                /\ pc' = "check"
                /\ UNCHANGED outcome
           ELSE /\ outcome' = Raise("ValidationException",
                                    "Your values are incorrect.")
                /\ pc' = "done"
                /\ UNCHANGED <<start_date, end_date, log>>
    /\ UNCHANGED <<table, snapshot, event, data, idx, response, queries, prev>>
    /\ UNCHANGED <<other, environ, lastPut>>

\* Lines 28-43.
ParseDates ==
    /\ pc = "parse"
    /\ LET ok == /\ Has(event, "start_date")
                 /\ StrptimeYmd(event["start_date"]) # ParseError
                 /\ Has(event, "end_date")
                 /\ StrptimeYmd(event["end_date"]) # ParseError
       IN  IF ok
           THEN /\ start_date' = RenderStart(StrptimeYmd(event["start_date"]))
                /\ end_date' = RenderEnd(StrptimeYmd(event["end_date"]))
                /\ log' = Append(log, LogRecord("info", "dates",
                       [start |-> RenderStart(StrptimeYmd(event["start_date"])),
                        end |-> RenderEnd(StrptimeYmd(event["end_date"]))]))
                /\ pc' = "check"
                /\ UNCHANGED outcome
           ELSE /\ log' = Append(log, LogRecord("warning", "error",
                       ErrorJson("ValidationException",
                                 "Your values are incorrect.")))
                /\ outcome' = Raise("ValidationException",
                                    "Your values are incorrect.")
                /\ pc' = "done"
                /\ UNCHANGED <<start_date, end_date>>
    /\ UNCHANGED <<table, snapshot, event, data, idx, response, queries, prev>>
    /\ UNCHANGED <<other, environ, lastPut>>

\* RangeCheck logging the error without raising it: the handler goes on.
RangeCheckFallsThrough ==
    /\ pc = "check"
    /\ IF StartAfterEnd(start_date, end_date)
       THEN /\ log' = Append(log, LogRecord("warning", "error",
                   ErrorJson("ValidationException",
                   "The start date is further in the future than the end date.")))
            /\ outcome' = Raise("ValidationException",
                   "The start date is further in the future than the end date.")
       ELSE UNCHANGED <<log, outcome>>
    /\ pc' = "query"
    /\ UNCHANGED <<table, snapshot, event, start_date, end_date, data, idx,
                   response, queries, prev, other, environ, lastPut>>

\* Lines 45-53.
RangeCheck ==
    /\ pc = "check"
    /\ IF StartAfterEnd(start_date, end_date)
       THEN /\ log' = Append(log, LogRecord("warning", "error",
                   ErrorJson("ValidationException",
                   "The start date is further in the future than the end date.")))
            /\ outcome' = Raise("ValidationException",
                   "The start date is further in the future than the end date.")
            /\ pc' = "done"
       ELSE /\ pc' = "query"
            /\ UNCHANGED <<log, outcome>>
    /\ UNCHANGED <<table, snapshot, event, start_date, end_date, data, idx,
                   response, queries, prev>>
    /\ UNCHANGED <<other, environ, lastPut>>

DatabaseError ==
    Raise("UnknownException", "Something went wrong with the database.")

\* QueryOk reading destructively: the fetched items leave the table.
QueryOkConsuming ==
    /\ pc = "query"
    /\ Has(event, "application")
    /\ data' = Query(table, event["application"], start_date, end_date)
    /\ snapshot' = table
    /\ table' = {it \in table :
                   ~KeyCondition(it, event["application"], start_date, end_date)}
    /\ queries' = queries + 1
    /\ log' = Append(log, LogRecord("info", "data",
                  Query(table, event["application"], start_date, end_date)))
    /\ pc' = "tally"
    /\ UNCHANGED <<event, start_date, end_date, idx, response, outcome, prev>>
    /\ UNCHANGED <<other, environ, lastPut>>

\* Lines 56-61 and 73: the query is answered.
QueryOk ==
    /\ pc = "query"
    /\ Has(event, "application")
    /\ data' = Query(table, event["application"], start_date, end_date)
    /\ snapshot' = table
    /\ queries' = queries + 1
    /\ log' = Append(log, LogRecord("info", "data",
                  Query(table, event["application"], start_date, end_date)))
    /\ pc' = "tally"
    /\ UNCHANGED <<table, event, start_date, end_date, idx, response, outcome,
                   prev>>
    /\ UNCHANGED <<other, environ, lastPut>>

\* Lines 62-69: building the key condition raises (no application in the
\* event), before any request is sent.
QueryKeyError ==
    /\ pc = "query"
    /\ ~Has(event, "application")
    /\ log' = Append(log, LogRecord("error", "error",
                  ErrorJson("UnknownException",
                            "Something went wrong with the database.")))
    /\ outcome' = DatabaseError
    /\ pc' = "done"
    /\ UNCHANGED <<table, snapshot, event, start_date, end_date, data, idx,
                   response, queries, prev>>
    /\ UNCHANGED <<other, environ, lastPut>>

\* QueryFails asking again after a failed request, up to three requests.
QueryFailsRetry(err) ==
    /\ pc = "query"
    /\ Has(event, "application")
    /\ queries' = queries + 1
    /\ IF queries < 2
       THEN UNCHANGED <<log, outcome, pc>>
       ELSE /\ log' = Append(log, LogRecord("error", "error",
                         ErrorJson("UnknownException",
                                   "Something went wrong with the database.")))
            /\ outcome' = DatabaseError
            /\ pc' = "done"
    /\ UNCHANGED <<table, snapshot, event, start_date, end_date, data, idx,
                   response, prev>>
    /\ UNCHANGED <<other, environ, lastPut>>

\* QueryFails with the text of the exception put into the message.
QueryFailsLeaky(err) ==
    /\ pc = "query"
    /\ Has(event, "application")
    /\ queries' = queries + 1
    /\ log' = Append(log, LogRecord("error", "error",
                  ErrorJson("UnknownException", err)))
    /\ outcome' = Raise("UnknownException", err)
    /\ pc' = "done"
    /\ UNCHANGED <<table, snapshot, event, start_date, end_date, data, idx,
                   response, prev>>
    /\ UNCHANGED <<other, environ, lastPut>>

\* Lines 62-69: the request to the store fails with the exception err, which
\* the except clause neither logs nor passes on.
QueryFails(err) ==
    /\ pc = "query"
    /\ Has(event, "application")
    /\ queries' = queries + 1
    /\ log' = Append(log, LogRecord("error", "error",
                  ErrorJson("UnknownException",
                            "Something went wrong with the database.")))
    /\ outcome' = DatabaseError
    /\ pc' = "done"
    /\ UNCHANGED <<table, snapshot, event, start_date, end_date, data, idx,
                   response, prev>>
    /\ UNCHANGED <<other, environ, lastPut>>

\* TallyError tagged as a validation failure.
TallyErrorAsValidation ==
    Raise("ValidationException", "Something went wrong with tallying dates.")

TallyError ==
    Raise("UnknownException", "Something went wrong with tallying dates.")

\* TallyItem passing over an item whose created_at does not parse.
TallyItemSkipsBad ==
    /\ pc = "tally"
    /\ idx <= Len(data.Items)
    /\ IF DateKey(data.Items[idx]) = ParseError
       THEN UNCHANGED response
       ELSE response' = Count(response, DateKey(data.Items[idx]))
    /\ idx' = idx + 1
    /\ UNCHANGED <<table, snapshot, event, start_date, end_date, data, queries,
                   prev, pc, log, outcome, other, environ, lastPut>>

\* Lines 80-97: one iteration of the loop over data['Items'].
TallyItem ==
    /\ pc = "tally"
    /\ idx <= Len(data.Items)
    /\ IF DateKey(data.Items[idx]) = ParseError
       THEN /\ log' = Append(log, LogRecord("error", "error",
                   ErrorJson("UnknownException",
                             "Something went wrong with tallying dates.")))
            /\ outcome' = TallyError
            /\ pc' = "done"
            /\ UNCHANGED <<idx, response>>
       ELSE /\ response' = Count(response, DateKey(data.Items[idx]))
            /\ idx' = idx + 1
            /\ UNCHANGED <<pc, log, outcome>>
    /\ UNCHANGED <<table, snapshot, event, start_date, end_date, data, queries,
                   prev>>
    /\ UNCHANGED <<other, environ, lastPut>>

\* Lines 99-103: the loop is over, the tally is logged and returned.
Respond ==
    /\ pc = "tally"
    /\ idx > Len(data.Items)
    /\ log' = Append(log, LogRecord("info", "response", response))
    /\ outcome' = Return(response)
    /\ pc' = "done"
    /\ UNCHANGED <<table, snapshot, event, start_date, end_date, data, idx,
                   response, queries, prev>>
    /\ UNCHANGED <<other, environ, lastPut>>

\* The invocation is over: the caller has the outcome and the locals of the
\* call are gone.
Finish ==
    /\ pc = "done"
    /\ pc' = "idle"
    /\ event' = NoEvent
    /\ start_date' = NoString
    /\ end_date' = NoString
    /\ data' = NoData
    /\ idx' = 1
    /\ response' = <<>>
    /\ outcome' = NoOutcome
    /\ log' = <<>>
    /\ queries' = 0
    /\ snapshot' = {}
    /\ prev' = NoCall
    /\ UNCHANGED table
    /\ UNCHANGED <<other, environ, lastPut>>

Next ==
    \/ \E app \in Applications, op \in Operations, t \in RequestTimes :
           Store(app, op, t)
    \/ \E e \in Events : Invoke(e)
    \/ ParseDates
    \/ RangeCheck
    \/ QueryOk
    \/ QueryKeyError
    \/ \E err \in StoreErrors : QueryFails(err)
    \/ TallyItem
    \/ Respond
    \/ Finish

Spec == Init /\ [][Next]_vars

(***************************************************************************)
(* The same request sent twice while the table is left alone.              *)
(***************************************************************************)
\* The request to the store of this call failed.
StoreFailed == queries = 1 /\ outcome = DatabaseError

\* FinishRemember with the dict of counts kept from one call to the next, as
\* a module-level dict would be.
FinishRememberKeepsTally ==
    /\ pc = "done"
    /\ pc' = "idle"
    /\ prev' = [kind |-> "call", event |-> event, outcome |-> outcome,
                storeFailed |-> StoreFailed]
    /\ event' = NoEvent
    /\ start_date' = NoString
    /\ end_date' = NoString
    /\ data' = NoData
    /\ idx' = 1
    /\ outcome' = NoOutcome
    /\ log' = <<>>
    /\ queries' = 0
    /\ snapshot' = {}
    /\ UNCHANGED <<table, response>>
    /\ UNCHANGED <<other, environ, lastPut>>

\* Finish, the caller keeping the request and what it got for it.
FinishRemember ==
    /\ pc = "done"
    /\ pc' = "idle"
    /\ prev' = [kind |-> "call", event |-> event, outcome |-> outcome,
                storeFailed |-> StoreFailed]
    /\ event' = NoEvent
    /\ start_date' = NoString
    /\ end_date' = NoString
    /\ data' = NoData
    /\ idx' = 1
    /\ response' = <<>>
    /\ outcome' = NoOutcome
    /\ log' = <<>>
    /\ queries' = 0
    /\ snapshot' = {}
    /\ UNCHANGED table
    /\ UNCHANGED <<other, environ, lastPut>>

\* The caller sends the remembered request again.
InvokeSame ==
    /\ prev # NoCall
    /\ Invoke(prev.event)

NextRepeat ==
    \/ \E app \in Applications, op \in Operations, t \in RequestTimes :
           pc = "idle" /\ prev = NoCall /\ Store(app, op, t)
    \/ \E e \in Events : prev = NoCall /\ Invoke(e)
    \/ InvokeSame
    \/ ParseDates
    \/ RangeCheck
    \/ QueryOk
    \/ QueryKeyError
    \/ \E err \in StoreErrors : QueryFails(err)
    \/ TallyItem
    \/ Respond
    \/ prev = NoCall /\ FinishRemember
    \/ prev # NoCall /\ Finish

SpecRepeat == Init /\ [][NextRepeat]_vars

(***************************************************************************)
(* Writes of more than one operation name, with a few requests.            *)
(***************************************************************************)
\* Values of the operation field of PUT requests.
OperationNames == {"play", "pause"}

\* Requests for the first day of 2023, with and without an application.
DayRequests ==
    { a @@ ("start_date" :> Ymd(2023, 1, 1)) @@ ("end_date" :> Ymd(2023, 1, 1)) :
        a \in OptionalField("application", {"app1"}) }

NextWrites ==
    \/ \E app \in Applications, op \in OperationNames, t \in RequestTimes :
           Store(app, op, t)
    \/ \E e \in DayRequests : Invoke(e)
    \/ ParseDates
    \/ RangeCheck
    \/ QueryOk
    \/ QueryKeyError
    \/ \E err \in StoreErrors : QueryFails(err)
    \/ TallyItem
    \/ Respond
    \/ Finish

SpecWrites == Init /\ [][NextWrites]_vars

(***************************************************************************)
(* A table that other writers use too.                                     *)
(***************************************************************************)
\* created_at values written by a client of the table other than the PUT
\* integration: a timestamp in another format.
ForeignStamps ==
    { Ymd(2023, 1, 1) \o <<" ", "0", "0", ":", "0", "0", ":", "0", "0">> }

\* Request times of the PUT requests considered along with such writes.
SomeRequestTimes ==
    { DateTime(2023, 1, 1, 0, 0, 0, 0), DateTime(2023, 2, 1, 0, 0, 0, 0) }

\* An item put into the table directly, not through the PUT integration.
ForeignPut(app, op, stamp) ==
    /\ Cardinality(PutItem(table, [application |-> app, operation |-> op,
                                   created_at |-> stamp])) <= MaxItems
    /\ table' = PutItem(table, [application |-> app, operation |-> op,
                                created_at |-> stamp])
    /\ UNCHANGED <<snapshot, pc, event, start_date, end_date, data, idx,
                   response, outcome, log, queries, prev>>
    /\ UNCHANGED <<other, environ, lastPut>>

NextOpen ==
    \/ \E app \in Applications, op \in Operations, t \in SomeRequestTimes :
           Store(app, op, t)
    \/ \E app \in Applications, op \in Operations, stamp \in ForeignStamps :
           ForeignPut(app, op, stamp)
    \/ \E e \in Events : Invoke(e)
    \/ ParseDates
    \/ RangeCheck
    \/ QueryOk
    \/ QueryKeyError
    \/ \E err \in StoreErrors : QueryFails(err)
    \/ TallyItem
    \/ Respond
    \/ Finish

SpecOpen == Init /\ [][NextOpen]_vars

(***************************************************************************)
(* The responses of the POST integration.                                  *)
(***************************************************************************)
\* json.dumps of the dict of counts: the members of a JSON object.
JsonDumps(r) == {<<k, r[k]>> : k \in DOMAIN r}

\* $util.parseJson of the text of a JSON object.
ParseJson(members) ==
    [k \in {m[1] : m \in members} |->
        (CHOOSE m \in members : m[1] = k)[2]]

\* The errorMessage of a failed invocation matches ".*ValidationException.*":
\* the words of the fixed messages do not hold that name, the type tag may.
MatchesValidation(o) == o.type = "ValidationException"

\* PostResponse with the catch-all pattern tried before the validation
\* pattern.
PostResponseCatchAllFirst(o) ==
    IF o.kind = "ok"
    THEN [status |-> 200, body |-> [counts |-> ParseJson(JsonDumps(o.response))]]
    ELSE [status |-> 500,
          body |-> [state |-> "Fail",
                    message |-> "Error, please contact the admin."]]

\* The integration response chosen for the outcome of the handler, and the
\* body its template renders.
PostResponse(o) ==
    IF o.kind = "ok"
    THEN [status |-> 200, body |-> [counts |-> ParseJson(JsonDumps(o.response))]]
    ELSE IF MatchesValidation(o)
         THEN [status |-> 400,
               body |-> [state |-> "Fail", message |-> o.message]]
         ELSE [status |-> 500,
               body |-> [state |-> "Fail",
                         message |-> "Error, please contact the admin."]]

(***************************************************************************)
(* Two invocations at a time.                                              *)
(***************************************************************************)
\* The locals of the invocation that runs.
Running ==
    Frame(pc, event, start_date, end_date, data, idx, response, outcome, log,
          queries, snapshot)

\* Switch with the dict of counts held at module level: one dict for both
\* invocations.
SwitchSharedTally ==
    /\ other' = Running
    /\ pc' = other.pc
    /\ event' = other.event
    /\ start_date' = other.start_date
    /\ end_date' = other.end_date
    /\ data' = other.data
    /\ idx' = other.idx
    /\ outcome' = other.outcome
    /\ log' = other.log
    /\ queries' = other.queries
    /\ snapshot' = other.snapshot
    /\ UNCHANGED <<table, response, prev, environ, lastPut>>

\* The invocation that runs is suspended and the other one goes on: each
\* has its own locals, and the table is what they share.
Switch ==
    /\ other' = Running
    /\ pc' = other.pc
    /\ event' = other.event
    /\ start_date' = other.start_date
    /\ end_date' = other.end_date
    /\ data' = other.data
    /\ idx' = other.idx
    /\ response' = other.response
    /\ outcome' = other.outcome
    /\ log' = other.log
    /\ queries' = other.queries
    /\ snapshot' = other.snapshot
    /\ UNCHANGED <<table, prev, environ, lastPut>>

\* Requests of the two invocations: a single day and a range of months, for
\* either application, and a request that names no application.
PairEvents ==
    {[application |-> a, start_date |-> Ymd(2023, 1, 1), end_date |-> e] :
        a \in Applications, e \in {Ymd(2023, 1, 1), Ymd(2023, 4, 30)}}
    \cup {[start_date |-> Ymd(2023, 1, 1), end_date |-> Ymd(2023, 1, 1)]}

\* Request times of the PUT requests made meanwhile: two instants of a day.
PairRequestTimes ==
    { DateTime(2023, 1, 1, 0, 0, 0, 0), DateTime(2023, 1, 1, 12, 30, 15, 0) }

NextPair ==
    \/ \E app \in Applications, op \in Operations, t \in PairRequestTimes :
           Store(app, op, t)
    \/ \E e \in PairEvents : Invoke(e)
    \/ Switch
    \/ ParseDates
    \/ RangeCheck
    \/ QueryOk
    \/ QueryKeyError
    \/ \E err \in StoreErrors : QueryFails(err)
    \/ TallyItem
    \/ Respond
    \/ Finish

SpecPair == Init /\ [][NextPair]_vars

(***************************************************************************)
(* The start of the function's process.                                    *)
(***************************************************************************)
\* The environments a process of the function is started with: the one the
\* stack sets, and one without the entry.
Environments == {FunctionEnvironment, NoEnvironment}

\* Loading the module raised: no handler to call.
InitError == [kind |-> "initerror", type |-> "KeyError"]

\* The process exists and the module function_post is not loaded yet.
InitCold ==
    /\ table = {}
    /\ snapshot = {}
    /\ pc = "cold"
    /\ event = NoEvent
    /\ start_date = NoString
    /\ end_date = NoString
    /\ data = NoData
    /\ idx = 1
    /\ response = <<>>
    /\ outcome = NoOutcome
    /\ log = <<>>
    /\ queries = 0
    /\ prev = NoCall
    /\ other = IdleFrame
    /\ environ \in Environments
    /\ lastPut = NoPut

\* LoadModule reading the entry with os.environ.get: no KeyError at load.
LoadModuleLazy ==
    /\ pc = "cold"
    /\ pc' = "idle"
    /\ UNCHANGED <<table, snapshot, event, start_date, end_date, data, idx,
                   response, outcome, log, queries, prev, other, environ,
                   lastPut>>

\* Lines 8-19: the module is loaded; os.environ['TABLE_NAME'] raises KeyError
\* when the entry is absent.
LoadModule ==
    /\ pc = "cold"
    /\ IF "TABLE_NAME" \in DOMAIN environ
       THEN pc' = "idle" /\ UNCHANGED outcome
       ELSE pc' = "initerror" /\ outcome' = InitError
    /\ UNCHANGED <<table, snapshot, event, start_date, end_date, data, idx,
                   response, log, queries, prev, other, environ, lastPut>>

\* After a failed load the next request starts a new process with the same
\* environment.
Restart ==
    /\ pc = "initerror"
    /\ pc' = "cold"
    /\ outcome' = NoOutcome
    /\ UNCHANGED <<table, snapshot, event, start_date, end_date, data, idx,
                   response, log, queries, prev, other, environ, lastPut>>

NextCold ==
    \/ LoadModule
    \/ Restart
    \/ \E app \in Applications, op \in Operations, t \in SomeRequestTimes :
           Store(app, op, t)
    \/ \E e \in Events : Invoke(e)
    \/ ParseDates
    \/ RangeCheck
    \/ QueryOk
    \/ QueryKeyError
    \/ \E err \in StoreErrors : QueryFails(err)
    \/ TallyItem
    \/ Respond
    \/ Finish

SpecCold == InitCold /\ [][NextCold]_vars

(***************************************************************************)
(* The PUT method: request validation, then the PutItem integration.       *)
(***************************************************************************)
\* Bodies of PUT requests: each property absent, or present with a value;
\* the strings may be empty.
PutBodies ==
    {a @@ o @@ c :
        a \in OptionalField("application", {"", "app1"}),
        o \in OptionalField("operation", {"", "play"}),
        c \in OptionalField("currentMediaTime", {12})}

RequiredOfPut == {"application", "operation", "currentMediaTime"}

\* ValidPutBody without the min_length of the string properties.
ValidPutBodyNoMinLength(b) ==
    \A f \in RequiredOfPut : f \in DOMAIN b

\* PUTRequestModel: the three properties are required and the two strings
\* have at least one character.
ValidPutBody(b) ==
    /\ \A f \in RequiredOfPut : f \in DOMAIN b
    /\ Len(b["application"]) >= 1
    /\ Len(b["operation"]) >= 1

\* A PUT request made at time t: the validator checks the body against the
\* model, and only a valid body reaches the PutItem integration.
PutRequest(b, t) ==
    /\ IF ValidPutBody(b)
       THEN /\ Cardinality(PutItem(table,
                   [application |-> b["application"],
                    operation |-> b["operation"],
                    created_at |-> RenderStart(t)])) <= MaxItems
            /\ table' = PutItem(table,
                   [application |-> b["application"],
                    operation |-> b["operation"],
                    created_at |-> RenderStart(t)])
            /\ lastPut' = [status |-> 200, body |-> b]
       ELSE /\ table' = table
            /\ lastPut' = [status |-> 400, body |-> b]
    /\ UNCHANGED <<snapshot, pc, event, start_date, end_date, data, idx,
                   response, outcome, log, queries, prev, other, environ>>

NextPut == \E b \in PutBodies, t \in RequestTimes : PutRequest(b, t)

SpecPut == Init /\ [][NextPut]_vars

(***************************************************************************)
(* Vocabulary of the properties: calendar days, independent of the         *)
(* handler's own parsing and comparison.                                   *)
(***************************************************************************)
\* s is the text YYYY-MM-DD of a day that exists.
IsCalendarDate(s) ==
    /\ Len(s) = 10
    /\ s[5] = "-" /\ s[8] = "-"
    /\ \A i \in {1, 2, 3, 4, 6, 7, 9, 10} : IsDigit(s[i])
    /\ LET y == ToInt(Slice(s, 1, 4))
           m == ToInt(Slice(s, 6, 7))
           d == ToInt(Slice(s, 9, 10))
       IN  y >= 1 /\ m >= 1 /\ m <= 12 /\ d >= 1 /\ d <= DaysInMonth(y, m)

\* The day <<year, month, day>> a YYYY-MM-DD text names.
DayOf(s) == <<ToInt(Slice(s, 1, 4)), ToInt(Slice(s, 6, 7)), ToInt(Slice(s, 9, 10))>>

\* Chronological order of days.
DayLeq(a, b) ==
    \/ a[1] < b[1]
    \/ a[1] = b[1] /\ a[2] < b[2]
    \/ a[1] = b[1] /\ a[2] = b[2] /\ a[3] <= b[3]

\* The day on which a stored item was created.
ItemDay(item) ==
    LET dt == StrptimeCLF(DropLast6(item.created_at))
    IN  <<dt.year, dt.month, dt.day>>

\* The request carries two calendar dates.
DatesValid ==
    /\ Has(event, "start_date") /\ IsCalendarDate(event["start_date"])
    /\ Has(event, "end_date") /\ IsCalendarDate(event["end_date"])

StartDay == DayOf(event["start_date"])
EndDay == DayOf(event["end_date"])

\* The request carries two calendar dates in chronological order.
RangeOrdered == DatesValid /\ DayLeq(StartDay, EndDay)

Returned == pc = "done" /\ outcome.kind = "ok"

Failed(t) == pc = "done" /\ outcome.kind = "error" /\ outcome.type = t

\* The records of the requested application in the table the query read.
OwnRecords == {it \in snapshot : it.application = event["application"]}

OwnRecordsOn(day) == {it \in OwnRecords : ItemDay(it) = day}

RECURSIVE Total(_)
Total(r) == IF DOMAIN r = {} THEN 0
            ELSE LET k == CHOOSE x \in DOMAIN r : TRUE
                 IN  r[k] + Total([x \in DOMAIN r \ {k} |-> r[x]])

\* The dict the loop of lines 80-89 builds from a list of items.
RECURSIVE TallyOf(_)
TallyOf(items) ==
    IF Len(items) = 0 THEN <<>>
    ELSE Count(TallyOf(SubSeq(items, 1, Len(items) - 1)),
               DateKey(items[Len(items)]))

(***************************************************************************)
(* Properties.                                                             *)
(***************************************************************************)
\* C1: for calendar dates start_date <= end_date, every key of the returned
\* mapping is a day inside [start_date, end_date].
C1_KeysInsideRange ==
    (Returned /\ RangeOrdered) =>
        \A k \in DOMAIN outcome.response :
            DayLeq(StartDay, DayOf(k)) /\ DayLeq(DayOf(k), EndDay)

\* C2: for calendar dates start_date <= end_date, each value of the returned
\* mapping is the number of records stored for the application on the key's
\* day.
C2_ValuesEqualStoredCount ==
    (Returned /\ RangeOrdered) =>
        \A k \in DOMAIN outcome.response :
            outcome.response[k] = Cardinality(OwnRecordsOn(DayOf(k)))

\* C3: for calendar dates start_date <= end_date, every day of the range on
\* which the application has a stored record is a key of the returned mapping.
C3_RangeComplete ==
    (Returned /\ RangeOrdered) =>
        \A it \in OwnRecords :
            (DayLeq(StartDay, ItemDay(it)) /\ DayLeq(ItemDay(it), EndDay))
                => DateKey(it) \in DOMAIN outcome.response

\* C4: a request whose start_date is a calendar date after its end_date
\* fails with a validation error: it never gets past the range check.
C4_StartAfterEndRejected ==
    (pc \notin {"idle", "parse", "check"} /\ DatesValid
        /\ ~DayLeq(StartDay, EndDay)) =>
        Failed("ValidationException")

\* C5: a request whose start_date is a calendar date on or before its
\* end_date does not end in a validation error.
C5_OrderedRangeAccepted ==
    (pc = "done" /\ RangeOrdered) => ~Failed("ValidationException")

\* C6: a request whose start_date or end_date is missing or is no calendar
\* date ends in a validation error, and no stage after date parsing runs: the
\* store is not queried.
C6_BadDateRejected ==
    (~DatesValid /\ pc \notin {"idle", "parse"}) =>
        /\ Failed("ValidationException")
        /\ queries = 0
        /\ data = NoData

C6_Witness ==
    /\ Failed("ValidationException")
    /\ Has(event, "start_date") /\ IsCalendarDate(event["start_date"])
    /\ Has(event, "end_date") /\ ~IsCalendarDate(event["end_date"])
    /\ Len(event["end_date"]) = 10
    /\ table # {}

\* C7: when the query response carries a continuation token, a returned
\* mapping tallies the records of every page: its counts add up to the number
\* of records that satisfy the key condition.
C7_AllPagesTallied ==
    (Returned /\ "LastEvaluatedKey" \in DOMAIN data) =>
        Total(outcome.response) =
            Cardinality({it \in snapshot :
                           KeyCondition(it, event["application"],
                                        start_date, end_date)})

\* C8: the returned mapping is decided by the records of the requested
\* application alone: every fetched item belongs to it, and the mapping is the
\* one the same request yields on the table without the other applications'
\* records.
C8_ApplicationIsolation ==
    Returned =>
        /\ \A i \in 1..Len(data.Items) :
               data.Items[i].application = event["application"]
        /\ outcome.response =
               TallyOf(Query(OwnRecords, event["application"],
                             start_date, end_date).Items)

C8_Witness ==
    /\ Returned
    /\ DOMAIN outcome.response # {}
    /\ \E it \in snapshot :
           /\ it.application # event["application"]
           /\ StrLeq(start_date, it.created_at)
           /\ StrLeq(it.created_at, end_date)

\* C9: with start_date = end_date = D the returned mapping counts exactly the
\* application's records of day D, those stamped 00:00:00 and 23:59:59
\* included, and nothing else.
C9_SingleDayCounted ==
    (Returned /\ DatesValid /\ StartDay = EndDay) =>
        outcome.response =
            (IF OwnRecordsOn(StartDay) = {} THEN <<>>
             ELSE event["start_date"] :> Cardinality(OwnRecordsOn(StartDay)))

\* C10: every value of the dict of counts is an integer >= 1 and every key is
\* the date of a fetched record; a query that fetched nothing yields the empty
\* mapping.
C10_CountsPositive ==
    /\ \A k \in DOMAIN response :
           /\ response[k] \in Nat /\ response[k] >= 1
           /\ \E i \in 1..Len(data.Items) : DateKey(data.Items[i]) = k
    /\ Returned =>
           /\ outcome.response = response
           /\ Len(data.Items) = 0 => DOMAIN outcome.response = {}

C10_Witness ==
    /\ Returned
    /\ \E k \in DOMAIN outcome.response : outcome.response[k] = 2
    /\ \E it \in OwnRecords : DateKey(it) \notin DOMAIN outcome.response

\* C11: the same request sent twice to an unchanged table, the store
\* answering (or failing) both times alike, has the same outcome both times:
\* the same mapping or the same error.
C11_Idempotent ==
    (pc = "done" /\ prev # NoCall /\ prev.storeFailed = StoreFailed) =>
        /\ event = prev.event
        /\ outcome = prev.outcome

C11_Witness ==
    /\ pc = "done" /\ prev # NoCall
    /\ outcome.kind = "ok"
    /\ outcome = prev.outcome
    /\ \E k \in DOMAIN outcome.response : outcome.response[k] = 2

\* The state of the handler invocation.
HandlerVars == <<pc, event, start_date, end_date, data, idx, response,
                 outcome, log, queries>>

\* C12: no step of the handler, on any path, changes the items of the table;
\* the only request it sends is a query, which its role is granted, and the
\* role is granted no action that writes.
C12_ReadOnly ==
    [][(HandlerVars' # HandlerVars) =>
          /\ table' = table
          /\ (queries' # queries) => "dynamodb:Query" \in LambdaGrants
          /\ LambdaGrants \cap WriteActions = {}]_vars

C12_Witness ==
    /\ Returned
    /\ queries = 1
    /\ Len(data.Items) = 2
    /\ table = snapshot

\* C13: an item once in the table stays in it with the same field values,
\* whatever Store and Aggregate operations follow, a second Store with the
\* same application and created_at included.
C13_RecordsKept == [][table \subseteq table']_vars

\* The instant <<year, month, day, hour, minute, second>> a created_at string
\* or a range bound stands for.
InstantOf(stamp) ==
    LET dt == StrptimeCLF(DropLast6(stamp))
    IN  <<dt.year, dt.month, dt.day, dt.hour, dt.minute, dt.second>>

\* Chronological order of instants.
InstantBefore(a, b) ==
    \E i \in 1..6 : a[i] < b[i] /\ \A j \in 1..(i - 1) : a[j] = b[j]

\* The timestamps in the store's format that exist in a state: the created_at
\* of the stored items and the two bounds of the range.
Stamps ==
    {it.created_at : it \in table}
        \cup (IF start_date = NoString THEN {} ELSE {start_date, end_date})

\* C14: two timestamps in the store's created_at format are in the same
\* lexical order as the instants they stand for are in time.
C14_LexicalIsChronological ==
    \A a \in Stamps : \A b \in Stamps :
        StrLess(a, b) <=> InstantBefore(InstantOf(a), InstantOf(b))

\* C15: every item Store wrote for the application on day D is, in an
\* Aggregate of that application from D to D, among the fetched items and
\* counted under the key D.
C15_StoredEventTallied ==
    (Returned /\ DatesValid /\ StartDay = EndDay) =>
        \A it \in OwnRecordsOn(StartDay) :
            /\ \E i \in 1..Len(data.Items) : data.Items[i] = it
            /\ DateKey(it) = event["start_date"]
            /\ DateKey(it) \in DOMAIN outcome.response

\* The invocation ended in an error.
Errored == pc = "done" /\ outcome.kind = "error"

\* The stage an errored invocation failed in: the tally when items were
\* fetched, the query when the dates were rendered and passed the range check,
\* else the validation of the dates.
FailureKind ==
    IF Len(data.Items) > 0 THEN "tally"
    ELSE IF start_date # NoString /\ ~StartAfterEnd(start_date, end_date)
         THEN "query"
         ELSE "validation"

\* The type tag the handler raises for each kind of failure.
TypeOfKind ==
    [validation |-> "ValidationException",
     query |-> DatabaseError.type,
     tally |-> TallyError.type]

C17_GenericMessage ==
    Errored =>
        /\ FailureKind = "query" =>
               outcome = Raise("UnknownException",
                               "Something went wrong with the database.")
        /\ FailureKind = "tally" =>
               outcome = Raise("UnknownException",
                               "Something went wrong with tallying dates.")

C17_Witness ==
    /\ Errored
    /\ StoreFailed
    /\ table # {}
    /\ outcome.message = "Something went wrong with the database."

\* C18: at the POST boundary a failure tagged ValidationException is answered
\* with status 400 and the message of the handler, a failure of the query or
\* of the tally with status 500 and 'Error, please contact the admin.', and a
\* returned result with status 200 and the counts.
C18_BoundaryStatus ==
    /\ Failed("ValidationException") =>
           /\ FailureKind = "validation"
           /\ PostResponse(outcome) =
                  [status |-> 400,
                   body |-> [state |-> "Fail", message |-> outcome.message]]
           /\ outcome.message \in
                  {"Your values are incorrect.",
                   "The start date is further in the future than the end date."}
    /\ (Errored /\ FailureKind \in {"query", "tally"}) =>
           PostResponse(outcome) =
               [status |-> 500,
                body |-> [state |-> "Fail",
                          message |-> "Error, please contact the admin."]]
    /\ Returned =>
           PostResponse(outcome) =
               [status |-> 200, body |-> [counts |-> response]]

C18_Witness ==
    /\ Failed("ValidationException")
    /\ outcome.message =
           "The start date is further in the future than the end date."
    /\ PostResponse(outcome).status = 400

\* C19: the request is the first entry of the log of an invocation, written
\* before the dates are parsed and before the store is queried, and an error
\* reaches the caller only after a warning or error entry carrying its type
\* and message has been written as the last entry of the log.
C19_LoggedBeforeRaised ==
    /\ pc # "idle" =>
           /\ Len(log) >= 1
           /\ log[1] = LogRecord("info", "request", event)
    /\ pc = "parse" => Len(log) = 1 /\ queries = 0
    /\ Errored =>
           /\ Len(log) >= 2
           /\ log[Len(log)].level \in {"warning", "error"}
           /\ log[Len(log)].body = ErrorJson(outcome.type, outcome.message)

C19_Witness ==
    /\ Errored
    /\ outcome.message = "Your values are incorrect."
    /\ Len(log) = 2
    /\ log[1].what = "request"
    /\ log[2].level = "warning"

\* C20: an invocation calls table.query at most once, and a failed call ends
\* the invocation at once with the store-failure error.
C20_NoRetry ==
    [][(queries' > queries) =>
           /\ queries = 0
           /\ queries' = 1
           /\ \/ pc' = "tally"
              \/ pc' = "done" /\ outcome' = DatabaseError]_vars

C20_Witness ==
    /\ pc = "done"
    /\ queries = 1
    /\ outcome = DatabaseError
    /\ Len(log) = 3
    /\ log[2].what = "dates"

\* The outcome of the handler run from start to end on the event e against
\* the table tbl, the store answering the query.
RunAlone(e, tbl) ==
    IF ~ /\ Has(e, "start_date")
         /\ StrptimeYmd(e["start_date"]) # ParseError
         /\ Has(e, "end_date")
         /\ StrptimeYmd(e["end_date"]) # ParseError
    THEN Raise("ValidationException", "Your values are incorrect.")
    ELSE LET s == RenderStart(StrptimeYmd(e["start_date"]))
             en == RenderEnd(StrptimeYmd(e["end_date"]))
         IN  IF StartAfterEnd(s, en)
             THEN Raise("ValidationException",
                    "The start date is further in the future than the end date.")
             ELSE IF ~Has(e, "application")
             THEN DatabaseError
             ELSE LET items == Query(tbl, e["application"], s, en).Items
                  IN  IF \E i \in 1..Len(items) : DateKey(items[i]) = ParseError
                      THEN TallyError
                      ELSE Return(TallyOf(items))

\* The outcome of a finished invocation is the outcome of a run alone
\* against the table its query read, unless the store failed the query.
OutcomeAsAlone(f) ==
    (f.pc = "done" /\ ~(f.queries = 1 /\ f.outcome = DatabaseError)) =>
        f.outcome = RunAlone(f.event, f.snapshot)

\* C21: of two invocations interleaved in any way, for the same or for
\* different applications, each ends with the outcome it would have alone
\* against the table its query read.
C21_Independent == OutcomeAsAlone(Running) /\ OutcomeAsAlone(other)

C21_Witness ==
    /\ pc = "done"
    /\ other.pc = "done"
    /\ outcome.kind = "ok"
    /\ other.outcome.kind = "ok"
    /\ event = other.event
    /\ snapshot # other.snapshot
    /\ DOMAIN outcome.response # {}
    /\ DOMAIN other.outcome.response # {}
    /\ outcome # other.outcome

\* C22: when the request to the store is given up for lack of time, the
\* invocation ends with a timeout error, an error that is none of the
\* validation, store and tally failures, and with no tally.
C22_TimeoutSurfaced ==
    [][QueryFails("ReadTimeoutError") =>
           /\ outcome'.kind = "error"
           /\ outcome'.type # "ValidationException"
           /\ outcome' \notin {DatabaseError, TallyError}]_vars

\* C23: without the TABLE_NAME entry the load of the module fails; the
\* handler runs only in a process whose environment has the entry, and
\* without it no request is logged and no handler error is raised.
C23_StartupFailure ==
    /\ pc \notin {"cold", "initerror"} => "TABLE_NAME" \in DOMAIN environ
    /\ "TABLE_NAME" \notin DOMAIN environ =>
           /\ pc \in {"cold", "initerror"}
           /\ outcome \in {NoOutcome, InitError}
           /\ log = <<>>
           /\ queries = 0

C23_Witness ==
    /\ "TABLE_NAME" \notin DOMAIN environ
    /\ pc = "initerror"
    /\ outcome = InitError
    /\ table # {}

\* C25: the template declares a table and a function, the environment of the
\* function has the entry TABLE_NAME holding the name of that table, and a
\* process started with that environment loads the module and serves
\* requests.
C25_DeployedConfigured ==
    /\ \E t \in Template : t.type = "AWS::DynamoDB::Table"
    /\ \E f \in Template :
           /\ f.type = "AWS::Lambda::Function"
           /\ \E t \in Template :
                  /\ t.type = "AWS::DynamoDB::Table"
                  /\ "TABLE_NAME" \in DOMAIN f.environment
                  /\ f.environment["TABLE_NAME"] = t.name
    /\ environ = FunctionEnvironment =>
           /\ pc # "initerror"
           /\ outcome # InitError

C25_Witness ==
    /\ environ = FunctionEnvironment
    /\ Returned
    /\ DOMAIN outcome.response # {}

\* The body lacks a required property, or its application or operation is
\* the empty string.
Lacking(b) ==
    \/ "application" \notin DOMAIN b
    \/ "operation" \notin DOMAIN b
    \/ "currentMediaTime" \notin DOMAIN b
    \/ b["application"] = ""
    \/ b["operation"] = ""

\* C24: a PUT request whose body lacks application, operation or
\* currentMediaTime, or has an empty application or operation, is answered
\* 400 and leaves the table as it was.
C24_PutRejected ==
    [][\A b \in PutBodies, t \in RequestTimes :
           (PutRequest(b, t) /\ Lacking(b)) =>
               /\ table' = table
               /\ lastPut'.status = 400]_vars

C24_Witness ==
    /\ lastPut.status = 400
    /\ "application" \in DOMAIN lastPut.body
    /\ lastPut.body["application"] = ""
    /\ "operation" \in DOMAIN lastPut.body
    /\ "currentMediaTime" \in DOMAIN lastPut.body
    /\ table # {}

RangeError ==
    Raise("ValidationException",
          "The start date is further in the future than the end date.")

C27_FailClosed ==
    (pc = "done" /\ \E i \in 1..Len(data.Items) :
                        DateKey(data.Items[i]) = ParseError) =>
        /\ outcome = TallyError
        /\ "response" \notin DOMAIN outcome

C27_Witness ==
    /\ pc = "done"
    /\ Len(data.Items) = 2
    /\ DateKey(data.Items[1]) # ParseError
    /\ DateKey(data.Items[2]) = ParseError
    /\ DOMAIN response # {}
    /\ outcome.kind = "error"

\* C28: after the first k fetched records the counters sum to k, each
\* counter being the number of those records with its date, and the values
\* of a returned result sum to the number of fetched records.
C28_TallySums ==
    /\ pc = "tally" =>
           /\ Total(response) = idx - 1
           /\ \A k \in DOMAIN response :
                  response[k] =
                      Cardinality({i \in 1..(idx - 1) :
                                       DateKey(data.Items[i]) = k})
    /\ Returned => Total(outcome.response) = Len(data.Items)

C28_Witness ==
    /\ Returned
    /\ Len(data.Items) = 2
    /\ Total(outcome.response) = 2
    /\ Cardinality(DOMAIN outcome.response) = 1

\* C29: a request without the application field ends in a validation
\* failure.
C29_MissingApplicationIsValidation ==
    (pc = "done" /\ ~Has(event, "application")) =>
        Failed("ValidationException")

\* The kinds of the log records an invocation writes, stage by stage.
StageLog == <<"request", "dates", "data", "response">>

====
